---------------------------- MODULE Spec2Model ----------------------------
(***************************************************************************)
(* A model of fetter-rs: the Package artifact identity (src/package.rs)    *)
(* and the table / delimited writer (src/table.rs).                        *)
(*                                                                         *)
(* A Rust String is a sequence of characters, each a one-character TLA+    *)
(* string.  len() counts UTF-8 bytes, so every character has a byte width  *)
(* (ByteLen); the comparison of strings is the bytewise lexicographic one  *)
(* (CharCode).                                                             *)
(***************************************************************************)
EXTENDS Integers, Sequences, FiniteSets, TLC

\* args: the operation called and its arguments; ret: what it returned
\* (NotCalled until the operation has run)
VARIABLES args, ret

vars == <<args, ret>>

-----------------------------------------------------------------------------
(* Bounds of the model *)

\* longest text put before the tail of a distribution directory name
MaxBodyLen == 3

\* most rows the records of a table give together
MaxRows == 2

\* length in bytes of the long field of a table
LongFieldLen == 8

\* widest terminal
MaxTerminal == 20

\* latest write call of a writer that fails
MaxFailAt == 4

\* widest column handed to optimize_widths on its own
MaxWidth == 8

-----------------------------------------------------------------------------
(* Option<T> *)

None == [some |-> FALSE]

Some(x) == [some |-> TRUE, val |-> x]

-----------------------------------------------------------------------------
(* Strings *)

\* the byte of an ASCII character, the first byte of a two-byte character
CharCode(c) ==
    CASE c = "\n" -> 10
      [] c = "," -> 44
      [] c = "-" -> 45
      [] c = "." -> 46
      [] c = "0" -> 48
      [] c = "1" -> 49
      [] c = "2" -> 50
      [] c = "A" -> 65
      [] c = "B" -> 66
      [] c = "a" -> 97
      [] c = "b" -> 98
      [] c = "d" -> 100
      [] c = "f" -> 102
      [] c = "h" -> 104
      [] c = "i" -> 105
      [] c = "n" -> 110
      [] c = "o" -> 111
      [] c = "s" -> 115
      [] c = "t" -> 116
      [] c = "é" -> 195
      [] OTHER -> 32

\* char::to_lowercase on the characters of the model
LowerChar(c) ==
    CASE c = "A" -> "a"
      [] c = "B" -> "b"
      [] OTHER -> c

\* str::to_lowercase
to_lowercase(s) == [i \in 1..Len(s) |-> LowerChar(s[i])]

Less == "Less"
Equal == "Equal"
Greater == "Greater"

IntCmp(x, y) == IF x < y THEN Less ELSE IF x > y THEN Greater ELSE Equal

\* Ordering::then_with
then_with(first, second) == IF first = Equal THEN second ELSE first

RECURSIVE StrCmpFrom(_, _, _)
StrCmpFrom(s, t, i) ==
    IF i > Len(s) /\ i > Len(t) THEN Equal
    ELSE IF i > Len(s) THEN Less
    ELSE IF i > Len(t) THEN Greater
    ELSE IF CharCode(s[i]) # CharCode(t[i])
         THEN IntCmp(CharCode(s[i]), CharCode(t[i]))
         ELSE StrCmpFrom(s, t, i + 1)

\* <str as Ord>::cmp: lexicographic on the bytes
StrCmp(s, t) == StrCmpFrom(s, t, 1)

\* str::ends_with
ends_with(s, pat) ==
    /\ Len(s) >= Len(pat)
    /\ SubSeq(s, Len(s) - Len(pat) + 1, Len(s)) = pat

RECURSIVE trim_end_matches(_, _)
\* str::trim_end_matches: the pattern is removed from the end repeatedly
trim_end_matches(s, pat) ==
    IF Len(pat) > 0 /\ ends_with(s, pat)
    THEN trim_end_matches(SubSeq(s, 1, Len(s) - Len(pat)), pat)
    ELSE s

RECURSIVE SplitFrom(_, _, _, _, _)
SplitFrom(s, sep, i, cur, acc) ==
    IF i > Len(s) THEN Append(acc, cur)
    ELSE IF s[i] = sep THEN SplitFrom(s, sep, i + 1, <<>>, Append(acc, cur))
    ELSE SplitFrom(s, sep, i + 1, Append(cur, s[i]), acc)

\* str::split(char).collect(): one part more than there are separators
split(s, sep) == SplitFrom(s, sep, 1, <<>>, <<>>)

RECURSIVE join(_, _)
\* [String]::join(sep)
join(parts, sep) ==
    IF Len(parts) = 0 THEN <<>>
    ELSE IF Len(parts) = 1 THEN parts[1]
    ELSE parts[1] \o sep \o join(Tail(parts), sep)

\* all the strings over chars of length at most n
StringsUpTo(chars, n) == UNION {[1..k -> chars] : k \in 0..n}

-----------------------------------------------------------------------------
(* VersionSpec (src/version_spec.rs is not among the sources: after the    *)
(* specification, sections 3 and 4.1)                                      *)

Digits == {"0", "1", "2"}

DigitVal(c) == CharCode(c) - 48

RECURSIVE ParseNat(_, _)
ParseNat(s, acc) ==
    IF Len(s) = 0 THEN acc ELSE ParseNat(Tail(s), 10 * acc + DigitVal(s[1]))

IsNumber(s) == Len(s) > 0 /\ \A i \in 1..Len(s) : s[i] \in Digits

\* VersionSpec::new: never fails; text that is no release number is kept opaque
VersionSpec_new(text) ==
    LET parts == split(text, ".")
    IN  IF \A i \in 1..Len(parts) : IsNumber(parts[i])
        THEN [parsed |-> TRUE,
              release |-> [i \in 1..Len(parts) |-> ParseNat(parts[i], 0)],
              raw |-> text]
        ELSE [parsed |-> FALSE, release |-> <<>>, raw |-> text]

Segment(v, i) == IF i <= Len(v.release) THEN v.release[i] ELSE 0

RECURSIVE ReleaseCmpFrom(_, _, _)
ReleaseCmpFrom(v, w, i) ==
    IF i > Len(v.release) /\ i > Len(w.release) THEN Equal
    ELSE IF Segment(v, i) # Segment(w, i)
         THEN IntCmp(Segment(v, i), Segment(w, i))
         ELSE ReleaseCmpFrom(v, w, i + 1)

\* <VersionSpec as Ord>::cmp: release segments, the shorter zero-padded;
\* opaque versions are ordered among themselves by their text, after the others
VersionSpec_cmp(v, w) ==
    IF v.parsed /\ w.parsed THEN ReleaseCmpFrom(v, w, 1)
    ELSE IF v.parsed THEN Less
    ELSE IF w.parsed THEN Greater
    ELSE StrCmp(v.raw, w.raw)

\* <VersionSpec as PartialEq>::eq: equal iff every component compares equal
VersionSpec_eq(v, w) == VersionSpec_cmp(v, w) = Equal

\* <VersionSpec as Hash>::hash: what is fed to the hasher
VersionSpec_hash(v) ==
    IF v.parsed
    THEN LET n == CHOOSE k \in 0..Len(v.release) :
                     /\ \A i \in (k + 1)..Len(v.release) : v.release[i] = 0
                     /\ (k > 0 => v.release[k] # 0)
         IN  <<TRUE, SubSeq(v.release, 1, n)>>
    ELSE <<FALSE, v.raw>>

-----------------------------------------------------------------------------
(* Package *)

\* ".dist-info"
DistInfoSuffix == <<".", "d", "i", "s", "t", "-", "i", "n", "f", "o">>

\* Package::from_name_and_version
from_name_and_version(name, version) ==
    Some([name |-> name, version |-> VersionSpec_new(version), direct_url |-> None])

\* Package::from_name_version_direct_url
from_name_version_direct_url(name, version, direct_url) ==
    Some([name |-> name, version |-> VersionSpec_new(version),
          direct_url |-> direct_url])

\* a slip: the suffix is not required
from_dist_info_AnySuffix(input) ==
    LET parts == split(trim_end_matches(input, DistInfoSuffix), "-")
    IN  IF Len(parts) >= 2
        THEN from_name_and_version(join(SubSeq(parts, 1, Len(parts) - 1), <<"-">>),
                                   parts[Len(parts)])
        ELSE None

\* Package::from_dist_info
from_dist_info(input) ==
    IF ends_with(input, DistInfoSuffix)
    THEN LET trimmed_input == trim_end_matches(input, DistInfoSuffix)
             parts == split(trimmed_input, "-")
         IN  IF Len(parts) >= 2
             THEN from_name_and_version(
                      join(SubSeq(parts, 1, Len(parts) - 1), <<"-">>),
                      parts[Len(parts)])
             ELSE None
    ELSE None

\* the provenance records a direct_url.json can hold
DirectURLs == {"archive", "vcs"}

\* DirectURL::from_file: Ok(d) or Err
DurlLoads == {[ok |-> TRUE, val |-> d] : d \in DirectURLs} \cup {[ok |-> FALSE]}

\* Result::ok
ResultOk(r) == IF r.ok THEN Some(r.val) ELSE None

\* a slip: a provenance file that does not load loses the package
from_file_path_DurlErrIsNone(fp) ==
    IF ~fp.file_name.some THEN None
    ELSE LET file_name == fp.file_name.val
         IN  IF ends_with(file_name, DistInfoSuffix) /\ fp.is_dir
                /\ ~(fp.durl_is_file /\ ~fp.durl_load.ok)
             THEN LET durl == IF fp.durl_is_file THEN ResultOk(fp.durl_load) ELSE None
                      parts == split(trim_end_matches(file_name, DistInfoSuffix), "-")
                  IN  IF Len(parts) >= 2
                      THEN from_name_version_direct_url(
                               join(SubSeq(parts, 1, Len(parts) - 1), <<"-">>),
                               parts[Len(parts)], durl)
                      ELSE None
             ELSE None

\* Package::from_file_path.  fp is the path as the file system shows it: its
\* file name (none for a path with no UTF-8 file name), whether it is a
\* directory, whether direct_url.json is a file in it and how that file loads
from_file_path(fp) ==
    IF ~fp.file_name.some THEN None
    ELSE LET file_name == fp.file_name.val
         IN  IF ends_with(file_name, DistInfoSuffix) /\ fp.is_dir
             THEN LET durl == IF fp.durl_is_file THEN ResultOk(fp.durl_load) ELSE None
                      tfn == trim_end_matches(file_name, DistInfoSuffix)
                      parts == split(tfn, "-")
                  IN  IF Len(parts) >= 2
                      THEN from_name_version_direct_url(
                               join(SubSeq(parts, 1, Len(parts) - 1), <<"-">>),
                               parts[Len(parts)], durl)
                      ELSE None
             ELSE None

\* #[derive(PartialEq)] for Package: every field
Package_eq(a, b) ==
    /\ a.name = b.name
    /\ VersionSpec_eq(a.version, b.version)
    /\ a.direct_url = b.direct_url

\* #[derive(Hash)] for Package: what is fed to the hasher, every field in turn
Package_hash(a) == <<a.name, VersionSpec_hash(a.version), a.direct_url>>

\* a slip: the names are compared as written
Package_cmp_CaseSensitive(a, b) ==
    then_with(StrCmp(a.name, b.name), VersionSpec_cmp(a.version, b.version))

\* <Package as Ord>::cmp
Package_cmp(a, b) ==
    then_with(StrCmp(to_lowercase(a.name), to_lowercase(b.name)),
              VersionSpec_cmp(a.version, b.version))

\* <Package as PartialOrd>::partial_cmp
Package_partial_cmp(a, b) == Some(Package_cmp(a, b))

\* a < b
Package_lt(a, b) == Package_partial_cmp(a, b) = Some(Less)

-----------------------------------------------------------------------------
(* Inputs of the package operations *)

BodyChars == {"a", "A", "-", ".", "1"}

\* what follows the body: nothing, the suffix, the suffix cut short, the suffix twice
Tails == {<<>>, DistInfoSuffix, SubSeq(DistInfoSuffix, 1, 8),
          DistInfoSuffix \o DistInfoSuffix}

DirNames == {b \o t : b \in StringsUpTo(BodyChars, MaxBodyLen), t \in Tails}

PackageNames == {<<"a">>, <<"A">>, <<"a", "b">>, <<"a", "B">>, <<"b">>}

VersionTexts == {<<"1">>, <<"1", ".", "0">>, <<"1", ".", "2">>, <<"2">>,
                 <<"1", "0">>}

DirectURLOpts == {None} \cup {Some(d) : d \in DirectURLs}

Packages == {from_name_version_direct_url(n, v, d).val :
                 n \in PackageNames, v \in VersionTexts, d \in DirectURLOpts}

NotCalled == [called |-> FALSE]

Returned(x) == [called |-> TRUE, result |-> x]

FilePaths ==
    {[file_name |-> fn, is_dir |-> d, durl_is_file |-> f, durl_load |-> l] :
        fn \in {None} \cup {Some(n) : n \in DirNames},
        d \in BOOLEAN, f \in BOOLEAN, l \in DurlLoads}

-----------------------------------------------------------------------------
(* The package operations *)

FromDistInfo ==
    /\ args.op = "from_dist_info"
    /\ ret = NotCalled
    /\ ret' = Returned(from_dist_info(args.input))
    /\ UNCHANGED args

FromFilePath ==
    /\ args.op = "from_file_path"
    /\ ret = NotCalled
    /\ ret' = Returned(from_file_path(args.path))
    /\ UNCHANGED args

\* the comparisons of two packages: cmp, <, == and the two hashes
Compare ==
    /\ args.op = "compare"
    /\ ret = NotCalled
    /\ ret' = Returned([ord |-> Package_cmp(args.a, args.b),
                        lt |-> Package_lt(args.a, args.b),
                        eq |-> Package_eq(args.a, args.b),
                        hash_a |-> Package_hash(args.a),
                        hash_b |-> Package_hash(args.b)])
    /\ UNCHANGED args

InitPackage ==
    /\ args \in {[op |-> "from_dist_info", input |-> i] : i \in DirNames}
                \cup {[op |-> "from_file_path", path |-> fp] : fp \in FilePaths}
    /\ ret = NotCalled

NextPackage == FromDistInfo \/ FromFilePath

SpecPackage == InitPackage /\ [][NextPackage]_vars

InitCompare ==
    /\ args \in {[op |-> "compare", a |-> a, b |-> b] :
                    a \in Packages, b \in Packages}
    /\ ret = NotCalled

NextCompare == Compare

SpecCompare == InitCompare /\ [][NextCompare]_vars

-----------------------------------------------------------------------------
(* usize.  A value that wrapped below zero is written as the negative      *)
(* integer it is congruent to: -d stands for 2^64 - d.                     *)

\* a <= b on usize
usize_le(a, b) == IF (a < 0) = (b < 0) THEN a <= b ELSE a >= 0

\* usize::max
usize_max(a, b) == IF usize_le(a, b) THEN b ELSE a

Panic == [ok |-> FALSE]

Ok(x) == [ok |-> TRUE, val |-> x]

\* a - b on usize: with overflow checks (a debug build) a - b below zero
\* panics, without them (a release build) it wraps
usize_sub(a, b, overflow_checks) ==
    IF a >= b \/ ~overflow_checks THEN Ok(a - b) ELSE Panic

-----------------------------------------------------------------------------
(* Strings as the writer sees them *)

\* the UTF-8 width of a character
ByteLen(c) == IF c = "é" THEN 2 ELSE 1

RECURSIVE str_len(_)
\* str::len: the length in bytes
str_len(s) == IF Len(s) = 0 THEN 0 ELSE ByteLen(s[1]) + str_len(Tail(s))

Spaces(n) == [i \in 1..n |-> " "]

\* format!("{:<w$}", s, w = w): left aligned, filled with spaces up to w
\* characters, never cut
format_left(s, w) == IF Len(s) >= w THEN s ELSE s \o Spaces(w - Len(s))

\* &s[..n]: the first n bytes; panics when byte n is inside a character
byte_slice_to(s, n) ==
    IF \E k \in 0..Len(s) : str_len(SubSeq(s, 1, k)) = n
    THEN Ok(SubSeq(s, 1, CHOOSE k \in 0..Len(s) : str_len(SubSeq(s, 1, k)) = n))
    ELSE Panic

-----------------------------------------------------------------------------
(* table.rs *)

\* let w_gutter = 2
w_gutter == 2

\* the f64 product (width / w_ellipsisable) * w_excess falls just below the
\* whole number width * w_excess / w_ellipsisable for these
\* <<width, w_ellipsisable, w_excess>> (all of them with w_ellipsisable
\* below 40 and w_excess below 80), so the cast to usize gives one less than
\* the exact quotient
F64RoundsDown ==
    {<<3, 11, 55>>, <<6, 11, 55>>, <<11, 15, 75>>, <<6, 22, 55>>,
     <<12, 22, 55>>, <<15, 22, 22>>, <<15, 22, 44>>, <<13, 23, 23>>,
     <<13, 23, 46>>, <<21, 23, 69>>, <<15, 26, 26>>, <<15, 26, 52>>,
     <<15, 26, 78>>, <<22, 30, 75>>, <<9, 33, 55>>, <<18, 33, 55>>,
     <<31, 39, 39>>, <<31, 39, 78>>}

\* (proportion * w_excess) as usize, proportion = width / w_ellipsisable in
\* f64: 0 for the NaN of 0 / 0, else the floor of the rounded product
reduction_of(width, w_ellipsisable, w_excess) ==
    IF w_ellipsisable = 0 THEN 0
    ELSE (width * w_excess) \div w_ellipsisable
             - (IF <<width, w_ellipsisable, w_excess>> \in F64RoundsDown
                THEN 1 ELSE 0)

RECURSIVE SumSeq(_)
SumSeq(ns) == IF Len(ns) = 0 THEN 0 ELSE ns[1] + SumSeq(Tail(ns))

\* the sum of the widths of the ellipsisable columns
w_ellipsisable_of(widths_max, ellipsisable) ==
    SumSeq([i \in 1..Len(widths_max) |->
                IF ellipsisable[i] THEN widths_max[i] ELSE 0])

\* the WidthFormat of column i when the table is trimmed; reduction is its
\* share of the excess
trimmed_width(width, is_ellipsisable, reduction, overflow_checks) ==
    IF is_ellipsisable
    THEN LET d == usize_sub(width, reduction, overflow_checks)
         IN  IF d.ok
             THEN LET w_field == usize_max(d.val, 3)
                  IN  Ok([width_chars |-> w_field - w_gutter, width_pad |-> w_field])
             ELSE Panic
    ELSE Ok([width_chars |-> width, width_pad |-> width + w_gutter])

\* optimize_widths.  w_terminal is what terminal::size() gives (0 on Err);
\* the result is the Vec<WidthFormat>, or a panic of the subtraction
optimize_widths(widths_max, ellipsisable, gutter, w_terminal, overflow_checks) ==
    LET w_total == SumSeq(widths_max) + gutter * Len(widths_max)
        ellipsisable_any == \E i \in 1..Len(ellipsisable) : ellipsisable[i]
    IN  IF ~ellipsisable_any \/ w_total <= w_terminal \/ w_terminal = 0
        THEN Ok([i \in 1..Len(widths_max) |->
                    [width_chars |-> widths_max[i],
                     width_pad |-> widths_max[i] + gutter]])
        ELSE LET w_excess == w_total - w_terminal
                 w_ell == w_ellipsisable_of(widths_max, ellipsisable)
                 each == [i \in 1..Len(widths_max) |->
                             trimmed_width(widths_max[i], ellipsisable[i],
                                 reduction_of(widths_max[i], w_ell, w_excess),
                                 overflow_checks)]
             IN  IF \A i \in 1..Len(each) : each[i].ok
                 THEN Ok([i \in 1..Len(each) |-> each[i].val])
                 ELSE Panic

\* prepare_field: the String, or a panic: of the slice, or of the padding to
\* a wrapped width, which no allocation can hold
prepare_field(value, widths) ==
    IF usize_le(str_len(value), widths.width_chars)
    THEN IF widths.width_pad < 0 THEN Panic
         ELSE Ok(format_left(value, widths.width_pad))
    ELSE IF widths.width_chars > 3 /\ (str_len(value) - widths.width_chars) > 3
         THEN LET head == byte_slice_to(value, widths.width_chars - 3)
              IN  IF head.ok
                  THEN Ok(format_left(head.val \o <<".", ".", ".">>, widths.width_pad))
                  ELSE Panic
         ELSE LET head == byte_slice_to(value, widths.width_chars)
              IN  IF head.ok THEN Ok(format_left(head.val, widths.width_pad))
                  ELSE Panic

\* A writer: what it has taken, the write calls made on it, and the call
\* that fails (0: none does).  One write!/writeln! is one call; a failing
\* call writes nothing.
NewWriter(fail_at) == [out |-> <<>>, calls |-> 0, fail_at |-> fail_at, status |-> "Ok"]

write(w, text) ==
    IF w.calls + 1 = w.fail_at
    THEN [w EXCEPT !.calls = @ + 1, !.status = "Err"]
    ELSE [w EXCEPT !.calls = @ + 1, !.out = @ \o text]

\* a slip: the last field of the row is left out
to_writer_delimited_DropLast(w, row, delimiter) ==
    write(w, join(SubSeq(row, 1, Len(row) - 1), delimiter) \o <<"\n">>)

\* to_writer_delimited
to_writer_delimited(w, row, delimiter) ==
    LET row_str == join(row, delimiter)
    IN  write(w, row_str \o <<"\n">>)

RECURSIVE Flatten(_)
\* for record in records { for row in record.to_rows(&context) { .. } }:
\* a record is the rows its to_rows gives
Flatten(records) ==
    IF Len(records) = 0 THEN <<>> ELSE records[1] \o Flatten(Tail(records))

RECURSIVE write_delimited_rows(_, _, _)
\* the rows in turn, up to the first write that fails
write_delimited_rows(w, rows, delim) ==
    IF Len(rows) = 0 \/ w.status # "Ok" THEN w
    ELSE write_delimited_rows(to_writer_delimited(w, rows[1], delim),
                              Tail(rows), delim)

\* widths_max: the header's length, then the longest element of the column;
\* widths_max[i] panics on a row with more elements than there are headers
widths_max_of(header_labels, rows) ==
    IF \E r \in 1..Len(rows) : Len(rows[r]) > Len(header_labels) THEN Panic
    ELSE Ok([i \in 1..Len(header_labels) |->
                LET lens == {str_len(header_labels[i])}
                               \cup {str_len(rows[r][i]) :
                                        r \in {q \in 1..Len(rows) : i <= Len(rows[q])}}
                IN  CHOOSE m \in lens : \A x \in lens : x <= m])

RECURSIVE write_table_row(_, _, _, _)
\* write!(writer, "{}", prepare_field(..))? for the elements from i on,
\* then writeln!(writer)?
write_table_row(w, row, widths, i) ==
    IF w.status # "Ok" THEN w
    ELSE IF i > Len(row) THEN write(w, <<"\n">>)
    ELSE LET f == prepare_field(row[i], widths[i])
         IN  IF f.ok THEN write_table_row(write(w, f.val), row, widths, i + 1)
             ELSE [w EXCEPT !.status = "Panic"]

RECURSIVE write_table_rows(_, _, _)
write_table_rows(w, rows, widths) ==
    IF Len(rows) = 0 \/ w.status # "Ok" THEN w
    ELSE write_table_rows(write_table_row(w, rows[1], widths, 1), Tail(rows), widths)

\* to_table_writer.  env is what the call meets: the writer's failing call,
\* the terminal's width, the build's overflow checks.  The result is the
\* writer after the call; its status is Ok(()), Err or a panic
to_table_writer(w, headers, records, delimiter, env) ==
    IF Len(records) = 0 \/ Len(headers) = 0 THEN w
    ELSE LET header_labels == [i \in 1..Len(headers) |-> headers[i].header]
             ellipsisable == [i \in 1..Len(headers) |-> headers[i].ellipsisable]
             rows == Flatten(records)
         IN  IF delimiter.some
             THEN write_delimited_rows(w, <<header_labels>> \o rows, delimiter.val)
             ELSE LET widths_max == widths_max_of(header_labels, rows)
                      widths == IF widths_max.ok
                                THEN optimize_widths(widths_max.val, ellipsisable,
                                         w_gutter, env.w_terminal, env.overflow_checks)
                                ELSE Panic
                  IN  IF widths.ok
                      THEN write_table_rows(w, <<header_labels>> \o rows, widths.val)
                      ELSE [w EXCEPT !.status = "Panic"]

\* a slip: the error of the writes is returned
to_writer_Propagates(w, headers, records, delimiter, env) ==
    LET done == to_table_writer(w, headers, records, delimiter, env)
    IN  [status |-> done.status, inner |-> done.status, out |-> done.out]

\* Tableable::to_writer: let _ = to_table_writer(..); Ok(()).  inner is the
\* Result that was dropped; a panic unwinds through
to_writer(w, headers, records, delimiter, env) ==
    LET done == to_table_writer(w, headers, records, delimiter, env)
    IN  [status |-> IF done.status = "Panic" THEN "Panic" ELSE "Ok",
         inner |-> done.status, out |-> done.out]

\* Tableable::to_file: File::create(file_path)? and to_writer on the file
to_file(headers, records, delimiter, env) ==
    IF ~env.create_ok THEN [status |-> "Err", inner |-> "NotRun", out |-> <<>>]
    ELSE to_writer(NewWriter(env.fail_at), headers, records, Some(<<delimiter>>), env)

\* Tableable::to_stdout
to_stdout(headers, records, env) ==
    to_writer(NewWriter(env.fail_at), headers, records, None, env)

-----------------------------------------------------------------------------
(* Inputs of the table operations *)

ColumnCounts == {1, 2}

Labels == <<<<"n">>, <<"v">>>>

\* the headers of a Tableable: none, or one to two columns
HeaderSets ==
    {<<>>} \cup
    UNION {{[i \in 1..n |-> [header |-> Labels[i], ellipsisable |-> e[i]]] :
               e \in [1..n -> BOOLEAN]} : n \in ColumnCounts}

\* a long field: LongFieldLen bytes, the second and third of them one
\* character
LongField == [i \in 1..(LongFieldLen - 1) |-> IF i = 2 THEN "é" ELSE "a"]

Fields == {<<"b">>, LongField}

\* the ways to put r rows, in order, into m records none of them empty
Cuts(r, m) ==
    {g \in [1..r -> 1..m] :
        /\ \A q \in 1..m : \E i \in 1..r : g[i] = q
        /\ \A i \in 1..(r - 1) : g[i] <= g[i + 1]}

\* the records of the rows: the rows cut into one or more records
Groupings(rows) ==
    LET r == Len(rows)
    IN  UNION {{[q \in 1..m |->
                    LET at == {i \in 1..r : g[i] = q}
                        lo == CHOOSE i \in at : \A j \in at : i <= j
                        hi == CHOOSE i \in at : \A j \in at : j <= i
                    IN  SubSeq(rows, lo, hi)] : g \in Cuts(r, m)} : m \in 1..r}

\* the records of a Tableable of n columns: no record, a record of no row,
\* or up to MaxRows rows in records
RecordSets(n) ==
    {<<>>, <<<<>>>>} \cup
    UNION {UNION {Groupings(rows) : rows \in [1..r -> [1..n -> Fields]]} :
               r \in 1..MaxRows}

Tableables ==
    {[headers |-> h, records |-> rs] :
        h \in HeaderSets,
        rs \in UNION {RecordSets(n) : n \in ColumnCounts}}

FileEnvs ==
    {[create_ok |-> c, fail_at |-> f, w_terminal |-> 0, overflow_checks |-> TRUE] :
        c \in BOOLEAN, f \in 0..MaxFailAt}

StdoutEnvs ==
    {[create_ok |-> TRUE, fail_at |-> f, w_terminal |-> t, overflow_checks |-> o] :
        f \in 0..MaxFailAt, t \in 0..MaxTerminal, o \in BOOLEAN}

-----------------------------------------------------------------------------
(* The table operations *)

ToFile ==
    /\ args.op = "to_file"
    /\ ret = NotCalled
    /\ \E env \in FileEnvs :
          ret' = Returned([env |-> env,
                           res |-> to_file(args.headers, args.records,
                                           args.delimiter, env)])
    /\ UNCHANGED args

ToStdout ==
    /\ args.op = "to_stdout"
    /\ ret = NotCalled
    /\ \E env \in StdoutEnvs :
          ret' = Returned([env |-> env,
                           res |-> to_stdout(args.headers, args.records, env)])
    /\ UNCHANGED args

InitTable ==
    /\ args \in {[op |-> "to_file", headers |-> t.headers, records |-> t.records,
                  delimiter |-> ","] : t \in Tableables}
                \cup {[op |-> "to_stdout", headers |-> t.headers,
                       records |-> t.records] : t \in Tableables}
    /\ ret = NotCalled

NextTable == ToFile \/ ToStdout

SpecTable == InitTable /\ [][NextTable]_vars

\* optimize_widths on its own
OptimizeWidths ==
    /\ args.op = "optimize_widths"
    /\ ret = NotCalled
    /\ \E t \in 0..MaxTerminal, o \in BOOLEAN :
          ret' = Returned([w_terminal |-> t, overflow_checks |-> o,
                           widths |-> optimize_widths(args.widths_max,
                                          args.ellipsisable, w_gutter, t, o)])
    /\ UNCHANGED args

InitWidths ==
    /\ args \in {[op |-> "optimize_widths", widths_max |-> w, ellipsisable |-> e] :
                    w \in UNION {[1..n -> 0..MaxWidth] : n \in ColumnCounts},
                    e \in UNION {[1..n -> BOOLEAN] : n \in ColumnCounts}}
    /\ Len(args.widths_max) = Len(args.ellipsisable)
    /\ ret = NotCalled

NextWidths == OptimizeWidths

SpecWidths == InitWidths /\ [][NextWidths]_vars

-----------------------------------------------------------------------------
(* Claims about Package *)

\* the input with its last Len(DistInfoSuffix) characters removed
StripSuffix(s) == SubSeq(s, 1, Len(s) - Len(DistInfoSuffix))

\* the place of the last c in s, 0 when there is none
LastIndexOf(s, c) ==
    IF \E i \in 1..Len(s) : s[i] = c
    THEN CHOOSE i \in 1..Len(s) :
             s[i] = c /\ \A j \in (i + 1)..Len(s) : s[j] # c
    ELSE 0

\* C1: for every input that ends with ".dist-info" and, that suffix stripped,
\* holds a "-", from_dist_info returns a Package whose version is the text
\* after the last "-", whose name is the text before it, and whose direct_url
\* is absent.
C1_SplitAtLastHyphen ==
    (ret.called /\ args.op = "from_dist_info"
       /\ ends_with(args.input, DistInfoSuffix)
       /\ LastIndexOf(StripSuffix(args.input), "-") > 0)
    => LET stem == StripSuffix(args.input)
           k == LastIndexOf(stem, "-")
       IN  ret.result = Some([name |-> SubSeq(stem, 1, k - 1),
                              version |-> VersionSpec_new(SubSeq(stem, k + 1, Len(stem))),
                              direct_url |-> None])

\* C2: from_dist_info returns None for every input that does not end with
\* ".dist-info" and for every input that, the suffix stripped, has fewer than
\* two "-"-separated segments (holds no "-").
C2_NoneOnMalformed ==
    (ret.called /\ args.op = "from_dist_info"
       /\ (\/ ~ends_with(args.input, DistInfoSuffix)
           \/ LastIndexOf(StripSuffix(args.input), "-") = 0))
    => ret.result = None

\* a name and a version under a suffix cut short ("a-1.dist-in") gave None
C2_Witness ==
    /\ ret.called /\ args.op = "from_dist_info"
    /\ args.input = <<"a", "-", "1">> \o SubSeq(DistInfoSuffix, 1, 8)
    /\ ret.result = None

\* C3: a == b exactly when the names and the versions are equal, and packages
\* equal by name and version hash the same, whatever their direct_url.
C3_IdentityIsNameVersion ==
    (ret.called /\ args.op = "compare")
    => LET same == /\ args.a.name = args.b.name
                   /\ VersionSpec_eq(args.a.version, args.b.version)
       IN  /\ ret.result.eq <=> same
           /\ same => ret.result.hash_a = ret.result.hash_b

\* s before t in the bytewise lexicographic order
StrLess(s, t) ==
    \E i \in 1..Len(t) :
        /\ i <= Len(s) + 1
        /\ \A j \in 1..(i - 1) : s[j] = t[j]
        /\ (i = Len(s) + 1 \/ CharCode(s[i]) < CharCode(t[i]))

\* C4: a < b iff lower(a.name) < lower(b.name), or the lowercased names are
\* equal and a.version < b.version; direct_url plays no part.
C4_OrderLowerNameThenVersion ==
    (ret.called /\ args.op = "compare")
    => LET la == to_lowercase(args.a.name)
           lb == to_lowercase(args.b.name)
       IN  ret.result.lt <=>
               \/ StrLess(la, lb)
               \/ la = lb /\ VersionSpec_cmp(args.a.version, args.b.version) = Less

\* names that differ in case only, the order decided by the versions, the
\* provenance differing
C4_Witness ==
    /\ ret.called /\ args.op = "compare"
    /\ args.a.name # args.b.name
    /\ to_lowercase(args.a.name) = to_lowercase(args.b.name)
    /\ StrLess(args.b.name, args.a.name)
    /\ args.a.direct_url # args.b.direct_url
    /\ ret.result.lt

\* the file name parses as a distribution directory name
WellFormed(fp) == fp.file_name.some /\ from_dist_info(fp.file_name.val).some

\* C5: from_file_path on a directory whose file name is well formed returns a
\* Package with the name and version from_dist_info gives for the file name;
\* its direct_url is the loaded provenance, none when direct_url.json is
\* missing or does not load.  A path whose file name does not end with
\* ".dist-info", or that is no directory, gives no Package.
C5_FromFilePath ==
    (ret.called /\ args.op = "from_file_path")
    => LET fp == args.path
           r == ret.result
       IN  /\ (WellFormed(fp) /\ fp.is_dir)
               => /\ r.some
                  /\ r.val.name = from_dist_info(fp.file_name.val).val.name
                  /\ r.val.version = from_dist_info(fp.file_name.val).val.version
                  /\ r.val.direct_url =
                        IF fp.durl_is_file /\ fp.durl_load.ok
                        THEN Some(fp.durl_load.val) ELSE None
           /\ (\/ ~fp.file_name.some
               \/ ~fp.is_dir
               \/ ~ends_with(fp.file_name.val, DistInfoSuffix))
               => r = None

\* a well-formed directory whose direct_url.json is there and does not load
C5_Witness ==
    /\ ret.called /\ args.op = "from_file_path"
    /\ WellFormed(args.path) /\ args.path.is_dir
    /\ args.path.durl_is_file /\ ~args.path.durl_load.ok
    /\ ret.result.some /\ ret.result.val.direct_url = None

\* C9: a.cmp(b) is Equal if and only if a == b.
C9_OrdConsistentWithEq ==
    (ret.called /\ args.op = "compare")
    => (ret.result.ord = Equal <=> ret.result.eq)

-----------------------------------------------------------------------------
(* Claims about the table writer *)

\* the lines of what was written: the text between the line feeds; the last
\* element is what follows the last line feed
LinesOf(out) == split(out, "\n")

\* rows given by the records before record r
RowsBefore(records, r) == SumSeq([q \in 1..(r - 1) |-> Len(records[q])])

TotalRows(records) == RowsBefore(records, Len(records) + 1)

\* where field j of a row starts in its delimited line, less one
FieldStart(fields, delim, j) ==
    SumSeq([q \in 1..(j - 1) |-> Len(fields[q]) + Len(delim)])

\* line is the fields, each whole and in its place, the delimiter between
IsJoined(line, fields, delim) ==
    /\ Len(line) = FieldStart(fields, delim, Len(fields) + 1) - Len(delim)
    /\ \A j \in 1..Len(fields) :
          LET at == FieldStart(fields, delim, j)
          IN  /\ SubSeq(line, at + 1, at + Len(fields[j])) = fields[j]
              /\ j < Len(fields) =>
                    SubSeq(line, at + Len(fields[j]) + 1,
                           at + Len(fields[j]) + Len(delim)) = delim

\* C6: in delimited mode with headers and records, what is written is whole
\* lines in order: first the header labels joined by the delimiter, then one
\* line for each row of each record, the records in their order and the rows
\* of a record in theirs, each line the row's fields joined by the delimiter;
\* when no write fails every one of these lines is written.
C6_DelimitedLinesInOrder ==
    (ret.called /\ args.op = "to_file" /\ ret.result.env.create_ok
       /\ Len(args.headers) > 0 /\ Len(args.records) > 0)
    => LET lines == LinesOf(ret.result.res.out)
           written == Len(lines) - 1
           delim == <<args.delimiter>>
       IN  /\ lines[Len(lines)] = <<>>
           /\ written <= 1 + TotalRows(args.records)
           /\ ret.result.res.inner = "Ok" => written = 1 + TotalRows(args.records)
           /\ written >= 1 =>
                 IsJoined(lines[1],
                          [i \in 1..Len(args.headers) |-> args.headers[i].header],
                          delim)
           /\ \A r \in 1..Len(args.records) :
                 \A i \in 1..Len(args.records[r]) :
                    LET k == 1 + RowsBefore(args.records, r) + i
                    IN  k <= written =>
                           IsJoined(lines[k], args.records[r][i], delim)

\* two records with different rows of two fields, written to the end
C6_Witness ==
    /\ ret.called /\ args.op = "to_file"
    /\ Len(args.headers) = 2 /\ Len(args.records) = 2
    /\ Len(args.records[1][1]) = 2
    /\ args.records[1][1][1] # args.records[1][1][2]
    /\ args.records[1] # args.records[2]
    /\ ret.result.res.inner = "Ok"
    /\ Len(LinesOf(ret.result.res.out)) = 4

\* every row has as many fields as there are headers
Rectangular(headers, records) ==
    \A r \in 1..Len(records) :
        \A i \in 1..Len(records[r]) : Len(records[r][i]) = Len(headers)

\* the widths optimize_widths gave the call
WidthsOfCall ==
    optimize_widths(
        widths_max_of([i \in 1..Len(args.headers) |-> args.headers[i].header],
                      Flatten(args.records)).val,
        [i \in 1..Len(args.headers) |-> args.headers[i].ellipsisable],
        w_gutter, ret.result.env.w_terminal, ret.result.env.overflow_checks)

\* the sum of width_pad over the columns before column i
PadBefore(widths, i) == SumSeq([q \in 1..(i - 1) |-> widths[q].width_pad])

\* every line written to its end is as long as the width_pad of the columns
\* together, and shows in full every value of a column not ellipsisable
TableLinesAligned ==
    LET widths == WidthsOfCall.val
        lines == LinesOf(ret.result.res.out)
        rows == <<[i \in 1..Len(args.headers) |-> args.headers[i].header]>>
                    \o Flatten(args.records)
    IN  \A k \in 1..(Len(lines) - 1) :
            /\ Len(lines[k]) = PadBefore(widths, Len(widths) + 1)
            /\ \A i \in 1..Len(widths) :
                  ~args.headers[i].ellipsisable =>
                     SubSeq(lines[k], PadBefore(widths, i) + 1,
                            PadBefore(widths, i) + Len(rows[k][i])) = rows[k][i]

\* C7: in table mode, for every records whose rows have as many fields as
\* there are headers and for every terminal width, every field of the header
\* line and of every body line is rendered to its column's width_pad
\* characters, so that the lines have one length, and a column that is not
\* ellipsisable shows every value in full.
C7_FixedWidthLines ==
    (ret.called /\ args.op = "to_stdout"
       /\ Len(args.headers) > 0 /\ Len(args.records) > 0
       /\ Rectangular(args.headers, args.records))
    => /\ ret.result.res.status # "Panic"
       /\ TableLinesAligned

\* C8: when the table is wider than the terminal and a column is
\* ellipsisable, the reduction of every ellipsisable column is at most the
\* column's width: no subtraction goes below zero and every width_chars is
\* at most its width_pad.
C8_NoUnderflow ==
    (ret.called /\ args.op = "optimize_widths"
       /\ (\E i \in 1..Len(args.ellipsisable) : args.ellipsisable[i])
       /\ ret.result.w_terminal # 0
       /\ SumSeq(args.widths_max) + w_gutter * Len(args.widths_max)
             > ret.result.w_terminal)
    => LET w_excess == SumSeq(args.widths_max) + w_gutter * Len(args.widths_max)
                          - ret.result.w_terminal
           w_ell == w_ellipsisable_of(args.widths_max, args.ellipsisable)
       IN  /\ \A i \in 1..Len(args.widths_max) :
                 args.ellipsisable[i] =>
                    reduction_of(args.widths_max[i], w_ell, w_excess)
                        <= args.widths_max[i]
           /\ ret.result.widths.ok
           /\ \A i \in 1..Len(args.widths_max) :
                 /\ 0 <= ret.result.widths.val[i].width_chars
                 /\ ret.result.widths.val[i].width_chars
                        <= ret.result.widths.val[i].width_pad

\* C10: to_writer returns Ok(()) whatever the writes did: to_stdout never
\* returns Err, and to_file returns Err only when the file is not created.
C10_WriteErrorsDropped ==
    (ret.called /\ args.op \in {"to_file", "to_stdout"})
    => /\ ret.result.res.inner = "Err" => ret.result.res.status = "Ok"
       /\ args.op = "to_stdout" => ret.result.res.status # "Err"
       /\ args.op = "to_file" =>
             (ret.result.res.status = "Err" <=> ~ret.result.env.create_ok)

\* a write of a body row failed after the header was written, and the call
\* returned Ok(())
C10_Witness ==
    /\ ret.called /\ args.op = "to_file"
    /\ ret.result.res.inner = "Err"
    /\ ret.result.res.status = "Ok"
    /\ Len(LinesOf(ret.result.res.out)) = 2

=============================================================================
